---- MODULE Spec2Model ----
(***************************************************************************)
(* Model of the vacancy fetch-and-ingest pipeline of src/db_manager.py:    *)
(*   - get_vacancies_for_company: the pagination loop over the HTTP API,   *)
(*   - DBManager.insert_company / insert_vacancy / insert_vacancies_bulk:  *)
(*     the INSERT ... ON CONFLICT DO NOTHING statements on one psycopg2    *)
(*     connection (autocommit off, explicit commit, no rollback anywhere), *)
(*   - get_all_vacancies_for_companies: one fetch task per company on a    *)
(*     thread pool, results consumed by the calling thread in submission   *)
(*     order, each company persisted inside one try/except.                *)
(*                                                                         *)
(* Three specifications share the module:                                  *)
(*   Spec      one call of get_all_vacancies_for_companies,                *)
(*   FetchSpec one call of get_vacancies_for_company, one loop iteration   *)
(*             per step,                                                   *)
(*   DbSpec    arbitrary sequences of DBManager insert calls.              *)
(*                                                                         *)
(* Optional values (Python None / a missing dict key) are sequences of     *)
(* length at most one: None == <<>>, a present value v is <<v>>.           *)
(***************************************************************************)
EXTENDS Integers, Sequences, FiniteSets, TLC

VARIABLES
    db,          \* the store behind DBManager.connection / DBManager.cursor
    faults,      \* number of statements the server has rejected so far
    server,      \* FetchSpec: the API's answer for page 0, 1, ... of one employer
    pages,       \* FetchSpec: the pages argument of get_vacancies_for_company
    fetch,       \* FetchSpec: the locals of get_vacancies_for_company
    dbh,         \* DbSpec: history of the direct DBManager calls
    companies,   \* Spec: the companies argument (a sequence of descriptors)
    api,         \* Spec: employer id -> the API's answers for its pages
    futures,     \* Spec: one future per company, in submission order
    pc,          \* Spec: position of the calling thread
    k,           \* Spec: index of the future the for loop is at
    company_id,  \* Spec: local variable company_id (line 139)
    calls,       \* Spec: history of the persistence calls made by the run
    in_call      \* Spec: the threads inside a DBManager method (0: the calling
                 \*       thread, i: the worker running the task of company i)

vars == <<db, faults, server, pages, fetch, dbh, companies, api, futures, pc, k,
          company_id, calls, in_call>>

fetchVars == <<server, pages, fetch>>
runVars == <<companies, api, futures, pc, k, company_id, calls, in_call>>

None == <<>>
Some(v) == <<v>>

\* ------------------------------------------------------------------ bounds

\* Spec: longest companies list.
MaxCompanies == 2
\* Spec, DbSpec: how many statements the database server may reject.
MaxDbFaults == 1
\* FetchSpec: how many pages the API side is described for.
ApiPages == 5
\* DbSpec: how many DBManager calls are made.
MaxCalls == 4

\* AvgSpec: most rows of the vacancies table get_avg_salary is applied to.
MaxRows == 2

\* ------------------------------------------------- program constants

\* 'per_page': 100 and the test len(items) < 100
PER_PAGE == 100
\* pages=1, the default of get_vacancies_for_company
DEFAULT_PAGES == 1
\* executor.submit(get_vacancies_for_company, company['id'], 5)
PIPELINE_PAGES == 5
\* ThreadPoolExecutor(max_workers=10)
MAX_WORKERS == 10
\* response.status_code == 200
HTTP_OK == 200
\* a non-success status of the API
HTTP_ERROR == 500
\* vacancy.get('name', <placeholder>)
TITLE_PLACEHOLDER == "Ne ukazano"
\* vacancy.get('alternate_url', <placeholder>)
URL_PLACEHOLDER == "Net ssylki"

\* ------------------------------------------------ get_vacancies_for_company

\* One HTTP exchange: requests.get either raises (raised) or yields a response
\* with a status code and, through response.json().get('items', []), items.
Response(raised, status_code, items) ==
    [raised |-> raised, status_code |-> status_code, items |-> items]

OkPage(items) == Response(FALSE, HTTP_OK, items)
ErrorPage == Response(FALSE, HTTP_ERROR, <<>>)
RaisingPage == Response(TRUE, 0, <<>>)

\* requests.get(url, params) with params['page'] = page: the answer of the API
\* described by srv; past the described pages the API has nothing more.
requests_get(srv, page) ==
    IF page + 1 <= Len(srv) THEN srv[page + 1] ELSE OkPage(<<>>)

IsLastPage_le(items) == Len(items) <= PER_PAGE

\* if len(data.get('items', [])) < 100: break
IsLastPage(items) == Len(items) < PER_PAGE

\* The locals at the top of the for loop: next page index, all_vacancies, the
\* page indices requested so far (history), and where the call is.
FetchStart(n) ==
    [page |-> 0, all_vacancies |-> <<>>, requested |-> <<>>,
     state |-> IF n <= 0 THEN "returned" ELSE "loop"]

OnHttpError_continue(f, n) ==
    IF f.page + 1 >= n THEN [f EXCEPT !.state = "returned"]
    ELSE [f EXCEPT !.page = f.page + 1]

\* else: print(...); break   followed by   return all_vacancies
OnHttpError(f, n) == [f EXCEPT !.state = "returned"]

LoopIteration_nocap(f, srv, n) ==
    LET response == requests_get(srv, f.page)
        g == [f EXCEPT !.requested = Append(f.requested, f.page)]
    IN  IF response.raised
        THEN [g EXCEPT !.state = "raised"]
        ELSE IF response.status_code = HTTP_OK
        THEN LET h == [g EXCEPT !.all_vacancies = g.all_vacancies \o response.items]
             IN  IF IsLastPage(response.items)
                 THEN [h EXCEPT !.state = "returned"]
                 ELSE [h EXCEPT !.page = f.page + 1]
        ELSE OnHttpError(g, n)

\* One iteration of  for page in range(pages)  for the loop state f.
LoopIteration(f, srv, n) ==
    LET response == requests_get(srv, f.page)
        g == [f EXCEPT !.requested = Append(f.requested, f.page)]
    IN  IF response.raised
        THEN [g EXCEPT !.state = "raised"]
        ELSE IF response.status_code = HTTP_OK
        THEN LET h == [g EXCEPT !.all_vacancies = g.all_vacancies \o response.items]
             IN  IF IsLastPage(response.items) \/ f.page + 1 >= n
                 THEN [h EXCEPT !.state = "returned"]
                 ELSE [h EXCEPT !.page = f.page + 1]
        ELSE OnHttpError(g, n)

RECURSIVE RunLoop(_, _, _)
RunLoop(f, srv, n) ==
    IF f.state # "loop" THEN f ELSE RunLoop(LoopIteration(f, srv, n), srv, n)

\* The whole call: the final loop state (state "returned" with all_vacancies,
\* or "raised" when requests.get raised).
get_vacancies_for_company(srv, n) == RunLoop(FetchStart(n), srv, n)

\* --------------------------------------------------------------- DBManager

\* The database as the connection sees it between two DBManager calls.  Every
\* method commits right after its statements and a rejected statement leaves the
\* transaction failed with its changes never committed, so the tables held here
\* are the committed tables.  status is the connection's transaction status:
\* IDLE, INTRANS (a transaction is open) or INERROR (a statement was rejected in
\* the open transaction and nothing has ended it).  The id columns take their
\* values from sequences, which never hand a value out twice.
EmptyDb ==
    [companies |-> {}, vacancies |-> {}, companies_id_seq |-> 0,
     vacancies_id_seq |-> 0, status |-> "IDLE"]

\* connection.commit(): ends the transaction (a failed one is rolled back).
commit(d) == [d EXCEPT !.status = "IDLE"]

InsertCompanyRow_update(d, name, industry, area) ==
    LET id == d.companies_id_seq + 1
        hit == {r \in d.companies : r.name = name}
    IN  IF hit # {}
        THEN [db |-> [d EXCEPT !.companies_id_seq = id, !.status = "INTRANS",
                               !.companies = (@ \ hit) \cup
                                   {[r EXCEPT !.industry = industry, !.area = area] : r \in hit}],
              returning |-> None]
        ELSE [db |-> [d EXCEPT !.companies_id_seq = id, !.status = "INTRANS",
                               !.companies = @ \cup {[id |-> id, name |-> name,
                                                       industry |-> industry, area |-> area]}],
              returning |-> Some(id)]

InsertCompanyRow_dup(d, name, industry, area) ==
    LET id == d.companies_id_seq + 1
    IN  [db |-> [d EXCEPT !.companies_id_seq = id, !.status = "INTRANS",
                          !.companies = @ \cup {[id |-> id, name |-> name,
                                                  industry |-> industry, area |-> area]}],
         returning |-> Some(id)]

\* INSERT INTO companies (name, industry, area) VALUES (%s, %s, %s)
\* ON CONFLICT (name) DO NOTHING RETURNING id
\* The id default is evaluated before the conflict is seen, so the sequence
\* advances either way.  returning is the fetched row: the new id, or None.
InsertCompanyRow(d, name, industry, area) ==
    LET id == d.companies_id_seq + 1
    IN  IF \E r \in d.companies : r.name = name
        THEN [db |-> [d EXCEPT !.companies_id_seq = id, !.status = "INTRANS"],
              returning |-> None]
        ELSE [db |-> [d EXCEPT !.companies_id_seq = id, !.status = "INTRANS",
                               !.companies = @ \cup {[id |-> id, name |-> name,
                                                       industry |-> industry, area |-> area]}],
              returning |-> Some(id)]

\* SELECT id FROM companies WHERE name = %s ; fetchone()[0]
SelectCompanyId(d, name) == (CHOOSE r \in d.companies : r.name = name).id

\* What a DBManager call leaves behind: the database, whether it raised, and
\* its return value (0 when it raised or returns nothing).
Outcome(d, raised, ret) == [db |-> d, raised |-> raised, ret |-> ret]

\* cursor.execute on a connection whose transaction has failed raises at once;
\* a statement the server rejects (rejected) raises and fails the transaction.
\* Nothing catches the exception inside DBManager and nothing rolls back.
ExecuteRaises(d, rejected) == d.status = "INERROR" \/ rejected

Failed(d) == [d EXCEPT !.status = "INERROR"]

insert_company_newid(d, company_name, industry, area, rejected) ==
    IF ExecuteRaises(d, rejected)
    THEN Outcome(Failed(d), TRUE, 0)
    ELSE LET ins == InsertCompanyRow(d, company_name, industry, area)
         IN  Outcome(commit(ins.db), FALSE, ins.db.companies_id_seq)

\* DBManager.insert_company
insert_company(d, company_name, industry, area, rejected) ==
    IF ExecuteRaises(d, rejected)
    THEN Outcome(Failed(d), TRUE, 0)
    ELSE LET ins == InsertCompanyRow(d, company_name, industry, area)
             committed == commit(ins.db)
         IN  IF ins.returning # None
             THEN Outcome(committed, FALSE, ins.returning[1])
             ELSE Outcome([committed EXCEPT !.status = "INTRANS"], FALSE,
                          SelectCompanyId(committed, company_name))

\* The parameter tuple (title, salary_min, salary_max, url, company_id).
VacancyTuple(title, salary_min, salary_max, url, cid) ==
    [title |-> title, salary_min |-> salary_min, salary_max |-> salary_max,
     url |-> url, company_id |-> cid]

VacancyRow(id, t) ==
    [id |-> id, title |-> t.title, salary_min |-> t.salary_min,
     salary_max |-> t.salary_max, url |-> t.url, company_id |-> t.company_id]

InsertVacancyRow_update(d, t) ==
    LET id == d.vacancies_id_seq + 1
        hit == {r \in d.vacancies : r.url = t.url}
    IN  IF hit # {}
        THEN [d EXCEPT !.vacancies_id_seq = id, !.status = "INTRANS",
                       !.vacancies = (@ \ hit) \cup {VacancyRow(r.id, t) : r \in hit}]
        ELSE [d EXCEPT !.vacancies_id_seq = id, !.status = "INTRANS",
                       !.vacancies = @ \cup {VacancyRow(id, t)}]

InsertVacancyRow_dup(d, t) ==
    LET id == d.vacancies_id_seq + 1
    IN  [d EXCEPT !.vacancies_id_seq = id, !.status = "INTRANS",
                  !.vacancies = @ \cup {VacancyRow(id, t)}]

\* INSERT INTO vacancies (title, salary_min, salary_max, url, company_id)
\* VALUES (%s, %s, %s, %s, %s) ON CONFLICT (url) DO NOTHING
InsertVacancyRow(d, t) ==
    LET id == d.vacancies_id_seq + 1
    IN  IF \E r \in d.vacancies : r.url = t.url
        THEN [d EXCEPT !.vacancies_id_seq = id, !.status = "INTRANS"]
        ELSE [d EXCEPT !.vacancies_id_seq = id, !.status = "INTRANS",
                       !.vacancies = @ \cup {VacancyRow(id, t)}]

\* DBManager.insert_vacancy
insert_vacancy(d, cid, title, salary_min, salary_max, url, rejected) ==
    IF ExecuteRaises(d, rejected)
    THEN Outcome(Failed(d), TRUE, 0)
    ELSE Outcome(commit(InsertVacancyRow(d,
                     VacancyTuple(title, salary_min, salary_max, url, cid))), FALSE, 0)

\* cursor.executemany(query, vacancies): the statement once per tuple, in order
\* (the first half of the list, then the second half, to keep the recursion
\* shallow on a batch of several hundred tuples; the halves and the store after
\* the first half are bound as values, so that each is computed once).
RECURSIVE executemany(_, _)
executemany(d, vacancies) ==
    IF vacancies = <<>> THEN d
    ELSE IF Len(vacancies) = 1 THEN InsertVacancyRow(d, vacancies[1])
    ELSE CHOOSE after \in UNION {
             { executemany(done, rest) : done \in {executemany(d, first)} } :
                 first \in {SubSeq(vacancies, 1, Len(vacancies) \div 2)},
                 rest \in {SubSeq(vacancies, Len(vacancies) \div 2 + 1, Len(vacancies))} } :
             TRUE

\* DBManager.insert_vacancies_bulk.  With an empty list no statement is sent, so
\* nothing raises and commit() runs.
insert_vacancies_bulk(d, vacancies, rejected) ==
    IF vacancies # <<>> /\ ExecuteRaises(d, rejected)
    THEN Outcome(Failed(d), TRUE, 0)
    ELSE Outcome(commit(executemany(d, vacancies)), FALSE, 0)

\* Exact fractions, for the numeric values PostgreSQL computes with: a numerator
\* and a positive denominator without a common divisor.
RECURSIVE GCD(_, _)
GCD(a, b) == IF b = 0 THEN a ELSE GCD(b, a % b)

Rat(num, den) ==
    LET g == GCD(IF num < 0 THEN -num ELSE num, den)
    IN  [num |-> num \div g, den |-> den \div g]

RatAdd(x, y) == Rat(x.num * y.den + y.num * x.den, x.den * y.den)

\* COALESCE(v, 0)
Coalesce(v, default) == IF v = None THEN default ELSE v[1]

Qualifies_all(r) == TRUE

\* WHERE v.salary_min IS NOT NULL OR v.salary_max IS NOT NULL
Qualifies(r) == r.salary_min # None \/ r.salary_max # None

\* (COALESCE(v.salary_min, 0) + COALESCE(v.salary_max, 0)) / 2.0
Midpoint(r) == Rat(Coalesce(r.salary_min, 0) + Coalesce(r.salary_max, 0), 2)

\* AVG(...) over a set of rows: the sum of the values over their number, NULL
\* over no row.
RECURSIVE SumOfMidpoints(_)
SumOfMidpoints(rows) ==
    IF rows = {} THEN Rat(0, 1)
    ELSE LET r == CHOOSE x \in rows : TRUE
         IN  RatAdd(Midpoint(r), SumOfMidpoints(rows \ {r}))

AVG(rows) ==
    IF rows = {} THEN None
    ELSE LET total == SumOfMidpoints(rows)
         IN  Some(Rat(total.num, total.den * Cardinality(rows)))

\* DBManager.get_avg_salary: the SELECT opens a transaction that is not ended,
\* and fetchone()[0] is the aggregate or None.
get_avg_salary(d, rejected) ==
    IF ExecuteRaises(d, rejected)
    THEN Outcome(Failed(d), TRUE, None)
    ELSE Outcome([d EXCEPT !.status = "INTRANS"], FALSE,
                 AVG({r \in d.vacancies : Qualifies(r)}))

\* --------------------------------------------- get_all_vacancies_for_companies

\* A raw API record: a dict whose keys 'name', 'salary', 'alternate_url' may be
\* missing; 'salary' is a dict with optional 'from' and 'to'.
RawVacancy(name, salary, alternate_url) ==
    [name |-> name, salary |-> salary, alternate_url |-> alternate_url]

Salary(from, to) == Some([from |-> from, to |-> to])

\* title = vacancy.get('name', placeholder)
TitleOf(vacancy) ==
    IF vacancy.name = None THEN TITLE_PLACEHOLDER ELSE vacancy.name[1]

UrlOf_title(vacancy) ==
    IF vacancy.alternate_url = None THEN TitleOf(vacancy) ELSE vacancy.alternate_url[1]

\* vacancy_url = vacancy.get('alternate_url', placeholder)
UrlOf(vacancy) ==
    IF vacancy.alternate_url = None THEN URL_PLACEHOLDER ELSE vacancy.alternate_url[1]

\* The body of  for vacancy in vacancies  : one tuple of vacancies_data.
Normalize(vacancy, cid) ==
    LET salary_info == vacancy.salary
        salary_min == IF salary_info # None THEN salary_info[1].from ELSE None
        salary_max == IF salary_info # None THEN salary_info[1].to ELSE None
    IN  VacancyTuple(TitleOf(vacancy), salary_min, salary_max, UrlOf(vacancy), cid)

\* vacancies_data after the loop over vacancies.
VacanciesData(vacancies, cid) ==
    [j \in 1..Len(vacancies) |-> Normalize(vacancies[j], cid)]

ShouldPersist_always(vacancies) == TRUE

\* if vacancies:
ShouldPersist(vacancies) == vacancies # <<>>

\* A future of the executor: PENDING, RUNNING or FINISHED, and once FINISHED
\* either the exception the task raised or its return value.
Future(state, exception, result) ==
    [state |-> state, exception |-> exception, result |-> result]

\* What the task get_vacancies_for_company(company['id'], 5) leaves in its future.
TaskOutcome(srv) ==
    LET f == get_vacancies_for_company(srv, PIPELINE_PAGES)
    IN  IF f.state = "raised" THEN Future("FINISHED", TRUE, <<>>)
        ELSE Future("FINISHED", FALSE, f.all_vacancies)

\* One entry of the history of persistence calls: which DBManager method, for
\* the company at which index of the companies list, whether it raised, the id
\* insert_company returned and the list insert_vacancies_bulk was given.
Call(op, i, raised, ret, batch) ==
    [op |-> op, i |-> i, raised |-> raised, ret |-> ret, batch |-> batch]

\* ------------------------------------------------------------ inputs of Spec

\* Company descriptors as main passes them; the third has the name of the first.
Company(id, name, industry, area) ==
    [id |-> id, name |-> name, industry |-> industry, area |-> area]

CompanyPool ==
    { Company("1", "Acme", Some("IT"), Some("Moscow")),
      Company("2", "Beta", None, None),
      Company("3", "Acme", Some("Finance"), Some("Saint Petersburg")) }

EmployerIds == {c.id : c \in CompanyPool}

RawDev == RawVacancy(Some("dev"), Salary(Some(1000), Some(2000)), Some("u1"))
RawQa == RawVacancy(Some("qa"), Salary(None, None), Some("u2"))
RawBare == RawVacancy(None, None, None)
RawOps == RawVacancy(Some("ops"), Salary(Some(3000), None), Some("u1"))

\* What the API answers for one employer, page by page.
ScenarioNames == {"none", "raise", "two", "dup", "paged"}

Scenario(name) ==
    CASE name = "none"  -> << OkPage(<<>>) >>
      [] name = "raise" -> << RaisingPage >>
      [] name = "two"   -> << OkPage(<<RawDev, RawBare>>) >>
      [] name = "dup"   -> << OkPage(<<RawOps, RawQa, RawBare>>) >>
      [] name = "paged" -> << OkPage([j \in 1..PER_PAGE |-> RawDev]), ErrorPage >>

SeqsUpTo(S, n) == UNION {[1..m -> S] : m \in 0..n}

\* ---------------------------------------------------------------- Spec

NoFuture == Future("PENDING", FALSE, <<>>)

Init ==
    /\ db = EmptyDb
    /\ faults = 0
    /\ companies \in SeqsUpTo(CompanyPool, MaxCompanies)
    /\ api \in [EmployerIds -> ScenarioNames]
    /\ \A e \in EmployerIds :
          (\A i \in 1..Len(companies) : companies[i].id # e) => api[e] = "none"
    /\ futures = <<>>
    /\ pc = "start"
    /\ k = 0
    /\ company_id = 0
    /\ calls = <<>>
    /\ in_call = {}
    /\ server = <<>>
    /\ pages = 0
    /\ fetch = FetchStart(0)
    /\ dbh = <<>>

Submit_last ==
    /\ pc = "start"
    /\ IF companies # <<>>
       THEN /\ futures' = [i \in 1..Len(companies) |-> NoFuture]
            /\ k' = Len(companies)
            /\ pc' = "result"
       ELSE /\ pc' = "exit"
            /\ UNCHANGED <<futures, k>>
    /\ UNCHANGED <<db, faults, fetchVars, dbh, companies, api, company_id, calls, in_call>>

\* with ThreadPoolExecutor(...): if companies: futures = {executor.submit(...)...}
\* and the for loop over futures taking its first key, the future submitted first.
Submit ==
    /\ pc = "start"
    /\ IF companies # <<>>
       THEN /\ futures' = [i \in 1..Len(companies) |-> NoFuture]
            /\ k' = 1
            /\ pc' = "result"
       ELSE /\ pc' = "exit"
            /\ UNCHANGED <<futures, k>>
    /\ UNCHANGED <<db, faults, fetchVars, dbh, companies, api, company_id, calls, in_call>>

Running == {i \in 1..Len(futures) : futures[i].state = "RUNNING"}

TaskStart_persist(i) ==
    /\ futures[i].state = "PENDING"
    /\ Cardinality(Running) < MAX_WORKERS
    /\ futures' = [futures EXCEPT ![i].state = "RUNNING"]
    /\ in_call' = in_call \cup {i}
    /\ UNCHANGED <<db, faults, fetchVars, dbh, companies, api, pc, k, company_id, calls>>

\* A worker thread of the pool takes the task of company i.
TaskStart(i) ==
    /\ futures[i].state = "PENDING"
    /\ Cardinality(Running) < MAX_WORKERS
    /\ futures' = [futures EXCEPT ![i].state = "RUNNING"]
    /\ UNCHANGED <<db, faults, fetchVars, dbh, companies, api, pc, k, company_id, calls, in_call>>

\* The task of company i returns or raises.
TaskFinish_requeue(i) ==
    /\ futures[i].state = "RUNNING"
    /\ futures' = [futures EXCEPT ![i] =
            LET f == TaskOutcome(Scenario(api[companies[i].id]))
            IN  IF f.exception THEN NoFuture ELSE f]
    /\ UNCHANGED <<db, faults, fetchVars, dbh, companies, api, pc, k, company_id, calls, in_call>>

TaskFinish(i) ==
    /\ futures[i].state = "RUNNING"
    /\ futures' = [futures EXCEPT ![i] = TaskOutcome(Scenario(api[companies[i].id]))]
    /\ UNCHANGED <<db, faults, fetchVars, dbh, companies, api, pc, k, company_id, calls, in_call>>

NextFuture_ready ==
    LET ready == {j \in (k + 1)..Len(futures) : futures[j].state = "FINISHED"}
    IN  IF ready = {}
        THEN k' = Len(futures) + 1 /\ pc' = "exit"
        ELSE k' = (CHOOSE j \in ready : \A j2 \in ready : j <= j2) /\ pc' = "result"

\* The end of one pass of  for future in futures .
NextFuture ==
    /\ k' = k + 1
    /\ pc' = IF k + 1 > Len(futures) THEN "exit" ELSE "result"

ResultRaises_propagate ==
    /\ pc = "result"
    /\ futures[k].state = "FINISHED"
    /\ futures[k].exception
    /\ pc' = "raised"
    /\ UNCHANGED <<db, faults, fetchVars, dbh, companies, api, futures, k, company_id, calls, in_call>>

\* vacancies = future.result() raises what the task raised: the except branch.
ResultRaises ==
    /\ pc = "result"
    /\ futures[k].state = "FINISHED"
    /\ futures[k].exception
    /\ NextFuture
    /\ UNCHANGED <<db, faults, fetchVars, dbh, companies, api, futures, company_id, calls, in_call>>

\* future.result() returns and  if vacancies:  is false.
ResultEmpty ==
    /\ pc = "result"
    /\ futures[k].state = "FINISHED"
    /\ ~futures[k].exception
    /\ ~ShouldPersist(futures[k].result)
    /\ NextFuture
    /\ UNCHANGED <<db, faults, fetchVars, dbh, companies, api, futures, company_id, calls, in_call>>

\* The calling thread, as a member of in_call.
MainThread == 0

\* future.result() returns,  if vacancies:  is true and the calling thread
\* enters db_manager.insert_company.
ResultVacancies ==
    /\ pc = "result"
    /\ futures[k].state = "FINISHED"
    /\ ~futures[k].exception
    /\ ShouldPersist(futures[k].result)
    /\ pc' = "insert_company"
    /\ in_call' = in_call \cup {MainThread}
    /\ UNCHANGED <<db, faults, fetchVars, dbh, companies, api, futures, k, company_id, calls>>

\* The server may reject a statement while the fault budget lasts.
MayReject(rejected) ==
    rejected => (faults < MaxDbFaults /\ db.status # "INERROR")

\* company_id = db_manager.insert_company(company_name, industry, area)
\* returns or raises.
InsertCompany ==
    /\ pc = "insert_company"
    /\ \E rejected \in BOOLEAN :
          /\ MayReject(rejected)
          /\ LET out == insert_company(db, companies[k].name, companies[k].industry,
                                       companies[k].area, rejected)
             IN  /\ db' = out.db
                 /\ faults' = IF rejected THEN faults + 1 ELSE faults
                 /\ calls' = Append(calls, Call("insert_company", k, out.raised, out.ret, <<>>))
                 /\ IF out.raised
                    THEN NextFuture /\ UNCHANGED company_id
                    ELSE /\ company_id' = out.ret
                         /\ pc' = "vacancies_data"
                         /\ UNCHANGED k
    /\ in_call' = in_call \ {MainThread}
    /\ UNCHANGED <<fetchVars, dbh, companies, api, futures>>

\* The loop building vacancies_data, after which the calling thread enters
\* db_manager.insert_vacancies_bulk(vacancies_data).
BuildVacanciesData ==
    /\ pc = "vacancies_data"
    /\ pc' = "insert_vacancies_bulk"
    /\ in_call' = in_call \cup {MainThread}
    /\ UNCHANGED <<db, faults, fetchVars, dbh, companies, api, futures, k, company_id, calls>>

\* db_manager.insert_vacancies_bulk(vacancies_data) returns or raises.
InsertVacanciesBulk ==
    /\ pc = "insert_vacancies_bulk"
    /\ \E rejected \in BOOLEAN :
          /\ MayReject(rejected)
          /\ LET vacancies_data == VacanciesData(futures[k].result, company_id)
                 out == insert_vacancies_bulk(db, vacancies_data, rejected)
             IN  /\ db' = out.db
                 /\ faults' = IF rejected THEN faults + 1 ELSE faults
                 /\ calls' = Append(calls, Call("insert_vacancies_bulk", k, out.raised,
                                                0, vacancies_data))
    /\ NextFuture
    /\ in_call' = in_call \ {MainThread}
    /\ UNCHANGED <<fetchVars, dbh, companies, api, futures, company_id>>

\* Leaving the with block: executor.shutdown(wait=True), then the function returns.
Exit ==
    /\ pc = "exit"
    /\ \A i \in 1..Len(futures) : futures[i].state = "FINISHED"
    /\ pc' = "returned"
    /\ UNCHANGED <<db, faults, fetchVars, dbh, companies, api, futures, k, company_id, calls, in_call>>

Next ==
    \/ Submit
    \/ \E i \in 1..Len(futures) : TaskStart(i)
    \/ \E i \in 1..Len(futures) : TaskFinish(i)
    \/ ResultRaises
    \/ ResultEmpty
    \/ ResultVacancies
    \/ InsertCompany
    \/ BuildVacanciesData
    \/ InsertVacanciesBulk
    \/ Exit

Spec == Init /\ [][Next]_vars

\* The run under the scheduling of the interpreter: a thread that can take a
\* step eventually takes one, and every page request returns or raises.
FairSpec == Spec /\ WF_vars(Next)

\* ------------------------------------------------------------ FetchSpec

\* How the API answers one page: no items, one short of a full page, a full
\* page, a non-200 status, or requests.get raising.
PageKinds == {"empty", "short", "full", "error", "raise"}

\* The items of page p are tagged <<p, 1>>, <<p, 2>>, ... so that the order of a
\* concatenation shows.
PageItems(p, n) == [i \in 1..n |-> <<p, i>>]

MakePage(kind, p) ==
    CASE kind = "empty" -> OkPage(PageItems(p, 0))
      [] kind = "short" -> OkPage(PageItems(p, PER_PAGE - 1))
      [] kind = "full"  -> OkPage(PageItems(p, PER_PAGE))
      [] kind = "error" -> ErrorPage
      [] kind = "raise" -> RaisingPage

\* The API described by a sequence of page kinds: element p + 1 answers page p.
ApiOf(kinds) == [q \in 1..Len(kinds) |-> MakePage(kinds[q], q - 1)]

FetchInit ==
    /\ server \in [1..ApiPages -> PageKinds]
    /\ pages \in {DEFAULT_PAGES, PIPELINE_PAGES}
    /\ fetch = FetchStart(pages)
    /\ db = EmptyDb
    /\ faults = 0
    /\ dbh = <<>>
    /\ companies = <<>>
    /\ api = <<>>
    /\ futures = <<>>
    /\ pc = "fetch"
    /\ k = 0
    /\ company_id = 0
    /\ calls = <<>>
    /\ in_call = {}

\* One pass through the body of  for page in range(pages) .
FetchIterate ==
    /\ fetch.state = "loop"
    /\ fetch' = LoopIteration(fetch, ApiOf(server), pages)
    /\ UNCHANGED <<db, faults, server, pages, dbh, runVars>>

FetchNext == FetchIterate

FetchSpec == FetchInit /\ [][FetchNext]_vars

\* --------------------------------------------------------------- DbSpec

CompanyNames == {"Acme", "Beta"}

\* (industry, area) pairs a caller passes.
CompanyAttrs ==
    { <<None, None>>, <<Some("IT"), Some("Moscow")>>,
      <<Some("Finance"), Some("Saint Petersburg")>> }

\* (title, salary_min, salary_max, url) of the tuples a caller passes; the
\* first two share their url.
TupleDev(cid) == VacancyTuple("dev", Some(1000), Some(2000), "u1", cid)
TupleOps(cid) == VacancyTuple("ops", Some(3000), None, "u1", cid)
TupleQa(cid) == VacancyTuple("qa", None, None, "u2", cid)

Tuples(cid) == {TupleDev(cid), TupleOps(cid), TupleQa(cid)}

Batches(cid) ==
    { <<>>, <<TupleDev(cid)>>, <<TupleDev(cid), TupleOps(cid)>>,
      <<TupleOps(cid), TupleDev(cid)>>, <<TupleQa(cid), TupleDev(cid)>>,
      <<TupleOps(cid), TupleQa(cid), TupleOps(cid)>> }

\* The history of the direct calls: how many were made, the last one (again:
\* the same name had been returned for, or the same batch completed, before),
\* the (name, id) pairs insert_company has returned, and the batches
\* insert_vacancies_bulk has completed.
NoCall == [op |-> "none", raised |-> FALSE]

DbInit ==
    /\ db = EmptyDb
    /\ faults = 0
    /\ dbh = [n |-> 0, last |-> NoCall, returned |-> {}, batches |-> {}]
    /\ server = <<>>
    /\ pages = 0
    /\ fetch = FetchStart(0)
    /\ companies = <<>>
    /\ api = <<>>
    /\ futures = <<>>
    /\ pc = "db"
    /\ k = 0
    /\ company_id = 0
    /\ calls = <<>>
    /\ in_call = {}

CompanyIds == {r.id : r \in db.companies}

CallInsertCompany ==
    /\ dbh.n < MaxCalls
    /\ \E name \in CompanyNames, attrs \in CompanyAttrs, rejected \in BOOLEAN :
          /\ MayReject(rejected)
          /\ LET out == insert_company(db, name, attrs[1], attrs[2], rejected)
             IN  /\ db' = out.db
                 /\ faults' = IF rejected THEN faults + 1 ELSE faults
                 /\ dbh' = [n |-> dbh.n + 1,
                            last |-> [op |-> "insert_company", raised |-> out.raised,
                                      name |-> name, industry |-> attrs[1],
                                      area |-> attrs[2], ret |-> out.ret,
                                      again |-> \E q \in dbh.returned : q[1] = name],
                            returned |-> IF out.raised THEN dbh.returned
                                         ELSE dbh.returned \cup {<<name, out.ret>>},
                            batches |-> dbh.batches]
    /\ UNCHANGED <<fetchVars, runVars>>

CallInsertVacancy ==
    /\ dbh.n < MaxCalls
    /\ \E cid \in CompanyIds, rejected \in BOOLEAN :
       \E t \in Tuples(cid) :
          /\ MayReject(rejected)
          /\ LET out == insert_vacancy(db, t.company_id, t.title, t.salary_min,
                                       t.salary_max, t.url, rejected)
             IN  /\ db' = out.db
                 /\ faults' = IF rejected THEN faults + 1 ELSE faults
                 /\ dbh' = [dbh EXCEPT !.n = @ + 1,
                                       !.last = [op |-> "insert_vacancy",
                                                 raised |-> out.raised, batch |-> <<t>>]]
    /\ UNCHANGED <<fetchVars, runVars>>

CallInsertVacanciesBulk ==
    /\ dbh.n < MaxCalls
    /\ \E cid \in CompanyIds, rejected \in BOOLEAN :
       \E batch \in Batches(cid) :
          /\ MayReject(rejected)
          /\ rejected => batch # <<>>
          /\ LET out == insert_vacancies_bulk(db, batch, rejected)
             IN  /\ db' = out.db
                 /\ faults' = IF rejected THEN faults + 1 ELSE faults
                 /\ dbh' = [dbh EXCEPT !.n = @ + 1,
                                       !.last = [op |-> "insert_vacancies_bulk",
                                                 raised |-> out.raised, batch |-> batch,
                                                 again |-> batch \in dbh.batches],
                                       !.batches = IF out.raised THEN @ ELSE @ \cup {batch}]
    /\ UNCHANGED <<fetchVars, runVars>>

DbNext ==
    \/ CallInsertCompany
    \/ CallInsertVacancy
    \/ CallInsertVacanciesBulk

DbSpec == DbInit /\ [][DbNext]_vars

\* --------------------------------------------------------------- AvgSpec

\* get_avg_salary applied to a vacancies table of at most MaxRows rows with
\* every combination of absent and present salary bounds.
SalaryValues == {None, Some(0), Some(1000), Some(2000)}

SalaryPairs == SalaryValues \X SalaryValues

UrlPool == <<"u1", "u2", "u3", "u4">>

TableOf(pairs) ==
    { VacancyRow(j, VacancyTuple("t", pairs[j][1], pairs[j][2], UrlPool[j], 1)) :
         j \in 1..Len(pairs) }

AvgInit ==
    /\ \E pairs \in SeqsUpTo(SalaryPairs, MaxRows), status \in {"IDLE", "INERROR"} :
          db = [EmptyDb EXCEPT !.vacancies = TableOf(pairs),
                               !.vacancies_id_seq = Len(pairs),
                               !.status = status]
    /\ faults = 0
    /\ dbh = [n |-> 0, last |-> NoCall, returned |-> {}, batches |-> {}]
    /\ server = <<>>
    /\ pages = 0
    /\ fetch = FetchStart(0)
    /\ companies = <<>>
    /\ api = <<>>
    /\ futures = <<>>
    /\ pc = "avg"
    /\ k = 0
    /\ company_id = 0
    /\ calls = <<>>
    /\ in_call = {}

CallGetAvgSalary ==
    /\ dbh.n = 0
    /\ \E rejected \in BOOLEAN :
          /\ MayReject(rejected)
          /\ LET out == get_avg_salary(db, rejected)
             IN  /\ db' = out.db
                 /\ faults' = IF rejected THEN faults + 1 ELSE faults
                 /\ dbh' = [dbh EXCEPT !.n = @ + 1,
                                       !.last = [op |-> "get_avg_salary",
                                                 raised |-> out.raised, ret |-> out.ret]]
    /\ UNCHANGED <<fetchVars, runVars>>

AvgNext == CallGetAvgSalary

AvgSpec == AvgInit /\ [][AvgNext]_vars

\* ------------------------------------------------------------ properties of Spec

\* What the task of the company at index i of the list ends with, from the API.
FetchOf(i) == TaskOutcome(Scenario(api[companies[i].id]))

FetchRaises(i) == FetchOf(i).exception
FetchEmpty(i) == ~FetchOf(i).exception /\ FetchOf(i).result = <<>>
FetchNonEmpty(i) == ~FetchOf(i).exception /\ FetchOf(i).result # <<>>

Indices == 1..Len(companies)

\* The returning position of the calling thread.
RunOver ==
    pc \notin {"start", "result", "insert_company", "vacancies_data",
               "insert_vacancies_bulk", "exit"}

\* The company at index i is in the store: a row with its name, and a row for
\* the url of each of its records.
Persisted(i) ==
    /\ \E c \in db.companies : c.name = companies[i].name
    /\ \A j \in 1..Len(FetchOf(i).result) :
          \E v \in db.vacancies : v.url = UrlOf(FetchOf(i).result[j])

\* C1: a company whose fetch returned an empty sequence gets no persistence
\* call (neither insert_company nor insert_vacancies_bulk is invoked for it),
\* and when the run is over a name that only such companies (or companies whose
\* fetch raised) carry has no row in companies.
C1_NoPersistenceForEmpty ==
    /\ \A i \in 1..Len(futures) :
          (futures[i].state = "FINISHED" /\ FetchEmpty(i))
             => \A c \in 1..Len(calls) : calls[c].i # i
    /\ RunOver =>
          \A i \in Indices :
             (\A j \in Indices : companies[j].name = companies[i].name => ~FetchNonEmpty(j))
                => ~\E c \in db.companies : c.name = companies[i].name

C1_Witness ==
    /\ pc = "returned"
    /\ \E i, j \in Indices :
          /\ FetchEmpty(i)
          /\ i < j
          /\ Persisted(j)
          /\ companies[i].name # companies[j].name

\* The persistence calls made for the company at index i, none of which raised.
CallsFor(i) == {c \in 1..Len(calls) : calls[c].i = i}
SomeCallRaised(i) == \E c \in CallsFor(i) : calls[c].raised

\* C2: when the fetch task of some company raises and the database rejects
\* nothing, the run still returns normally and every company whose fetch
\* returned a non-empty sequence has been given both persistence calls, neither
\* raised, and has its company row and a row for each of its urls in the store.
C2_FetchFailureIsolated ==
    (RunOver /\ faults = 0 /\ \E b \in Indices : FetchRaises(b))
       => /\ pc = "returned"
          /\ \A i \in Indices :
                FetchNonEmpty(i) =>
                   /\ Persisted(i)
                   /\ {calls[c].op : c \in CallsFor(i)} =
                         {"insert_company", "insert_vacancies_bulk"}
                   /\ ~SomeCallRaised(i)

C2_Witness ==
    /\ pc = "returned"
    /\ faults = 0
    /\ \E b, i \in Indices :
          /\ FetchRaises(b)
          /\ b < i
          /\ FetchNonEmpty(i)
          /\ Persisted(i)

\* C3 (as claimed): when a persistence call raises for one company, every
\* other company processed after it whose fetch returned a non-empty sequence
\* is still persisted, without its own calls raising.
C3_PersistenceFailureIsolated ==
    RunOver =>
       \A i, j \in Indices :
          (i < j /\ companies[i].name # companies[j].name
                 /\ SomeCallRaised(i) /\ FetchNonEmpty(j))
             => (Persisted(j) /\ ~SomeCallRaised(j))

\* C4: every vacancy row's company_id is the id of a company row; and every
\* insert_vacancies_bulk call comes right after an insert_company call for the
\* same company that returned the id of the row carrying the company's name,
\* which is the company_id of every tuple of the batch.
C4_ReferentialIntegrity ==
    /\ \A v \in db.vacancies : \E c \in db.companies : c.id = v.company_id
    /\ \A c \in 1..Len(calls) :
          calls[c].op = "insert_vacancies_bulk" =>
             /\ c > 1
             /\ calls[c - 1].op = "insert_company"
             /\ calls[c - 1].i = calls[c].i
             /\ ~calls[c - 1].raised
             /\ \A j \in 1..Len(calls[c].batch) :
                   calls[c].batch[j].company_id = calls[c - 1].ret
             /\ \E r \in db.companies :
                   r.id = calls[c - 1].ret /\ r.name = companies[calls[c].i].name

\* Two companies of one name, the second resolved to the existing row, and rows
\* of both in vacancies.
C4_Witness ==
    /\ pc = "returned"
    /\ Cardinality(db.companies) = 1
    /\ db.companies_id_seq = 2
    /\ Cardinality(db.vacancies) = 3
    /\ \A v \in db.vacancies : \E c \in db.companies : c.id = v.company_id

\* Call c is an insert_vacancies_bulk that completed with a tuple for url u.
IsBulkWith(c, u) ==
    /\ calls[c].op = "insert_vacancies_bulk"
    /\ ~calls[c].raised
    /\ \E j \in 1..Len(calls[c].batch) : calls[c].batch[j].url = u

\* The first tuple for url u of the first completed batch that has one.
FirstWriter(u) ==
    LET c == CHOOSE c1 \in 1..Len(calls) :
                 IsBulkWith(c1, u) /\ \A c2 \in 1..(c1 - 1) : ~IsBulkWith(c2, u)
        b == calls[c].batch
        j == CHOOSE j1 \in 1..Len(b) :
                 b[j1].url = u /\ \A j2 \in 1..(j1 - 1) : b[j2].url # u
    IN  b[j]

\* C6: per url there is one vacancy row, and its title, salary_min, salary_max
\* and company_id are those of the first tuple with that url that was inserted;
\* later inserts of the url change nothing.
C6_FirstWriterWins ==
    /\ \A v, w \in db.vacancies : v.url = w.url => v = w
    /\ \A v \in db.vacancies :
          /\ \E c \in 1..Len(calls) : IsBulkWith(c, v.url)
          /\ LET t == FirstWriter(v.url)
             IN  /\ v.title = t.title
                 /\ v.salary_min = t.salary_min
                 /\ v.salary_max = t.salary_max
                 /\ v.company_id = t.company_id

\* Two companies with different ids both inserted a tuple for one url, with
\* different titles, and the run is over.
C6_Witness ==
    /\ pc = "returned"
    /\ \E c1, c2 \in 1..Len(calls) :
          /\ c1 < c2
          /\ \E v \in db.vacancies :
                /\ IsBulkWith(c1, v.url)
                /\ IsBulkWith(c2, v.url)
                /\ \E j \in 1..Len(calls[c2].batch) :
                      /\ calls[c2].batch[j].url = v.url
                      /\ calls[c2].batch[j].title # v.title
                      /\ calls[c2].batch[j].company_id # v.company_id

\* ---------------------------------------------------------- properties of DbSpec

\* The step is a call of the named DBManager method.
IsCall(op) == dbh'.n # dbh.n /\ dbh'.last.op = op

\* C5: an insert_vacancies_bulk call with a batch that an earlier
\* insert_vacancies_bulk call completed with leaves the vacancies table as it
\* was; and after any sequence of insert_vacancy / insert_vacancies_bulk calls
\* no two vacancy rows have the same url.
C5_BulkIdempotent ==
    /\ [][(IsCall("insert_vacancies_bulk") /\ dbh'.last.again)
             => db'.vacancies = db.vacancies]_vars
    /\ [](\A v, w \in db.vacancies : v.url = w.url => v = w)

\* A batch of several tuples has just been run again, without raising, in a
\* store that other insert calls have written to as well.
C5_Witness ==
    /\ dbh.last.op = "insert_vacancies_bulk"
    /\ dbh.last.again
    /\ ~dbh.last.raised
    /\ Len(dbh.last.batch) > 1
    /\ Cardinality(db.vacancies) > 1
    /\ db.vacancies_id_seq > 2 * Len(dbh.last.batch)

\* C7: all insert_company calls with one name return one id, the id of the
\* only row with that name; no two company rows share a name.
C7_InsertCompanyIdempotent ==
    /\ \A p, q \in dbh.returned : p[1] = q[1] => p[2] = q[2]
    /\ \A p \in dbh.returned :
          /\ Cardinality({r \in db.companies : r.name = p[1]}) = 1
          /\ \E r \in db.companies : r.name = p[1] /\ r.id = p[2]
    /\ \A r, t \in db.companies : r.name = t.name => r = t

\* insert_company has just returned for a name it had returned for before.
C7_Witness ==
    /\ dbh.last.op = "insert_company"
    /\ ~dbh.last.raised
    /\ dbh.last.again
    /\ Cardinality(db.companies) = 2

\* C8: no step changes or removes a company row; an insert_company call with a
\* name that has a row leaves the companies table as it was and returns the id
\* of that row.
C8_CompanyNeverMutated ==
    [][/\ \A r \in db.companies : r \in db'.companies
       /\ (IsCall("insert_company") /\ ~dbh'.last.raised
             /\ \E r \in db.companies : r.name = dbh'.last.name)
          => /\ db'.companies = db.companies
             /\ \E r \in db.companies :
                   r.name = dbh'.last.name /\ r.id = dbh'.last.ret]_vars

\* insert_company has just returned for a name whose row has another industry
\* and another area than the call passed.
C8_Witness ==
    /\ dbh.last.op = "insert_company"
    /\ ~dbh.last.raised
    /\ dbh.last.again
    /\ \E r \in db.companies :
          /\ r.name = dbh.last.name
          /\ r.id = dbh.last.ret
          /\ r.industry # dbh.last.industry
          /\ r.area # dbh.last.area

\* ------------------------------------------------------- properties of FetchSpec

PageIndices == 0..(Len(server) - 1)

\* The API's answer for page p.
PageOf(p) == MakePage(server[p + 1], p)

\* Page p is returned with status 200.
PageOk(p) == ~PageOf(p).raised /\ PageOf(p).status_code = HTTP_OK

\* Page j is the first page with fewer than PER_PAGE items, every page up to it
\* being returned with status 200.
FirstShortPage(j) ==
    /\ \A q \in 0..j : PageOk(q)
    /\ \A q \in 0..(j - 1) : Len(PageOf(q).items) = PER_PAGE
    /\ Len(PageOf(j).items) < PER_PAGE

\* The items of pages lo..hi, in page order.
RECURSIVE ItemsOfPages(_, _)
ItemsOfPages(lo, hi) ==
    IF lo > hi THEN <<>> ELSE PageOf(lo).items \o ItemsOfPages(lo + 1, hi)

\* The page indices 0, 1, ..., j in increasing order.
UpTo(j) == [q \in 1..(j + 1) |-> q - 1]

\* The call has returned after requesting exactly pages 0..j, with the items of
\* pages 0..last.
ReturnedPages(j, last) ==
    /\ fetch.state = "returned"
    /\ fetch.requested = UpTo(j)
    /\ fetch.all_vacancies = ItemsOfPages(0, last)

\* C9 (as claimed): when page k is the first page with fewer than 100 items,
\* the call issues exactly k + 1 requests and returns the items of pages 0..k.
C9_PaginationTermination_Uncapped ==
    fetch.state # "loop" =>
       \A j \in PageIndices : FirstShortPage(j) => ReturnedPages(j, j)

\* C9 (amended): the same for k < pages, the page limit of the call.
C9_PaginationTermination ==
    fetch.state # "loop" =>
       \A j \in PageIndices : (FirstShortPage(j) /\ j < pages) => ReturnedPages(j, j)

\* The call has ended on a short third page after two full ones.
C9_Witness ==
    /\ fetch.state = "returned"
    /\ FirstShortPage(2)
    /\ Len(PageOf(2).items) = PER_PAGE - 1
    /\ Len(fetch.requested) = 3
    /\ Len(fetch.all_vacancies) = 3 * PER_PAGE - 1

\* Page j has been requested.
Requested(j) == \E q \in 1..Len(fetch.requested) : fetch.requested[q] = j

\* C10: once page j has been requested and answered with a status other than
\* 200, the call has returned (not raised), pages 0..j were requested once each
\* and nothing after j, and the result is the items of pages 0..j-1.
C10_TransportFailureStops ==
    \A j \in PageIndices :
       (Requested(j) /\ ~PageOf(j).raised /\ PageOf(j).status_code # HTTP_OK)
          => ReturnedPages(j, j - 1)

\* The third request was answered with an error status while the limit and
\* the API had more pages.
C10_Witness ==
    /\ fetch.state = "returned"
    /\ server[3] = "error"
    /\ server[4] = "full"
    /\ pages = PIPELINE_PAGES
    /\ fetch.requested = <<0, 1, 2>>
    /\ Len(fetch.all_vacancies) = 2 * PER_PAGE

\* ------------------------------------------------- properties of Spec, continued

\* C11: at most one thread is inside a DBManager method at any time, and it is
\* the calling thread; the store changes only in steps taken while the calling
\* thread is inside such a method, never in a step of a worker.
C11_PersistenceSerialized ==
    /\ [](Cardinality(in_call) <= 1 /\ in_call \subseteq {MainThread})
    /\ [][db' # db => (MainThread \in in_call /\ futures' = futures)]_vars

\* The calling thread is inside insert_vacancies_bulk while the fetch of another
\* company is still running.
C11_Witness ==
    /\ pc = "insert_vacancies_bulk"
    /\ in_call = {MainThread}
    /\ \E i \in 1..Len(futures) : futures[i].state = "RUNNING"

\* C12: a task only moves from PENDING to RUNNING and from RUNNING to FINISHED
\* (with a result or with an exception), a FINISHED task never changes again,
\* get_all_vacancies_for_companies returns only when every task is FINISHED,
\* and it always returns.
C12_TaskLifecycle ==
    /\ [][\A i \in 1..Len(futures) :
            /\ i \in 1..Len(futures')
            /\ \/ futures'[i] = futures[i]
               \/ /\ futures[i].state = "PENDING"
                  /\ futures'[i].state = "RUNNING"
               \/ /\ futures[i].state = "RUNNING"
                  /\ futures'[i].state = "FINISHED"]_vars
    /\ [](pc = "returned" => \A i \in Indices : futures[i].state = "FINISHED")
    /\ <>(pc = "returned")

\* The run has returned with one task that failed and one that completed with
\* vacancies.
C12_Witness ==
    /\ pc = "returned"
    /\ \E i \in Indices : FetchRaises(i)
    /\ \E i \in Indices : FetchNonEmpty(i)

\* The calling thread is blocked in future.result() of the company at index k.
Waiting == pc = "result" /\ futures[k].state # "FINISHED"

\* The fetch of the company at index j has completed with vacancies and no
\* persistence call has been made for it yet.
ReadyToPersist(j) ==
    /\ futures[j].state = "FINISHED"
    /\ ~futures[j].exception
    /\ futures[j].result # <<>>
    /\ CallsFor(j) = {}

\* C13 as stated: once the fetch of a company has completed with non-empty
\* results, its persistence does not wait for the still running fetch of any
\* other company, that is, the calling thread is never blocked on the fetch of
\* one company while another company is ready to be persisted.
C13_CompletionOrder ==
    ~(Waiting /\ \E j \in Indices \ {k} : ReadyToPersist(j))

\* C13, amended: persistence follows the order of the companies list.  The calls
\* are made in non-decreasing order of the index, each for a company whose own
\* fetch is FINISHED; while the calling thread is at index k every earlier fetch
\* is FINISHED and every earlier company with vacancies has been given its
\* persistence calls; a company that is ready while the calling thread is
\* blocked comes later in the list than the one it is blocked on.
C13_SubmissionOrder ==
    /\ \A a, b \in 1..Len(calls) : a < b => calls[a].i <= calls[b].i
    /\ \A c \in 1..Len(calls) :
          /\ futures[calls[c].i].state = "FINISHED"
          /\ calls[c].i <= k
    /\ in_call # {} => futures[k].state = "FINISHED"
    /\ pc \in {"result", "insert_company", "vacancies_data", "insert_vacancies_bulk"} =>
          \A j \in 1..(k - 1) :
             /\ futures[j].state = "FINISHED"
             /\ ~ReadyToPersist(j)
    /\ Waiting => \A j \in Indices : ReadyToPersist(j) => k < j

\* The calling thread is blocked on the still running fetch of the first company
\* while the second company is ready to be persisted.
C13_Witness ==
    /\ Waiting
    /\ k = 1
    /\ futures[1].state = "RUNNING"
    /\ Len(futures) >= 2
    /\ ReadyToPersist(2)

\* The insert_vacancies_bulk call made for the company at index i returned
\* without raising.
IngestSucceeded(i) ==
    \E c \in CallsFor(i) : calls[c].op = "insert_vacancies_bulk" /\ ~calls[c].raised

\* C14: when the run is over, every row of companies (the store was empty at the
\* start, so every row was created by the run) carries the name of a company
\* whose insert_vacancies_bulk call succeeded; no row remains for a company
\* whose insert_vacancies_bulk call raised.
C14_CompanyOnlyWithIngest ==
    RunOver =>
       \A r \in db.companies :
          \E i \in Indices : companies[i].name = r.name /\ IngestSucceeded(i)

\* ---------------------------------------------------------- properties of AvgSpec

\* The rows of the table with at least one salary bound, and the sum of their
\* bounds with an absent bound counted as 0.
WithSalary == {r \in db.vacancies : r.salary_min # <<>> \/ r.salary_max # <<>>}

RECURSIVE SumOfBounds(_)
SumOfBounds(rows) ==
    IF rows = {} THEN 0
    ELSE LET r == CHOOSE x \in rows : TRUE
         IN  (IF r.salary_min = <<>> THEN 0 ELSE r.salary_min[1])
           + (IF r.salary_max = <<>> THEN 0 ELSE r.salary_max[1])
           + SumOfBounds(rows \ {r})

SalariesOf(rows) == {<<r.salary_min, r.salary_max>> : r \in rows}

\* C15: a get_avg_salary call that returns gives None exactly when no row has a
\* salary bound, and otherwise the value a with
\* a * 2 * (number of rows with a bound) = sum of the bounds of those rows,
\* absent bounds counted as 0, the rows without any bound taking no part; for
\* the two rows (1000, 2000) and (absent, absent) it gives 1500.
C15_AvgSalary ==
    (dbh.last.op = "get_avg_salary" /\ ~dbh.last.raised) =>
       /\ dbh.last.ret = <<>> <=> WithSalary = {}
       /\ WithSalary # {} =>
             /\ dbh.last.ret[1].den > 0
             /\ dbh.last.ret[1].num * 2 * Cardinality(WithSalary)
                   = dbh.last.ret[1].den * SumOfBounds(WithSalary)
       /\ (Cardinality(db.vacancies) = 2 /\
           SalariesOf(db.vacancies) = {<<<<1000>>, <<2000>>>>, <<<<>>, <<>>>>}) =>
             dbh.last.ret = <<[num |-> 1500, den |-> 1]>>

\* get_avg_salary has returned on the table with the two rows (1000, 2000) and
\* (absent, absent).
C15_Witness ==
    /\ dbh.last.op = "get_avg_salary"
    /\ ~dbh.last.raised
    /\ Cardinality(db.vacancies) = 2
    /\ SalariesOf(db.vacancies) = {<<<<1000>>, <<2000>>>>, <<<<>>, <<>>>>}
    /\ dbh.last.ret = <<[num |-> 1500, den |-> 1]>>

\* ------------------------------------------- properties of FetchSpec, continued

\* The items of those of the pages lo..hi that are returned with status 200, in
\* page order.
RECURSIVE ItemsOfOkPages(_, _)
ItemsOfOkPages(lo, hi) ==
    IF lo > hi THEN <<>>
    ELSE (IF PageOk(lo) THEN PageOf(lo).items ELSE <<>>) \o ItemsOfOkPages(lo + 1, hi)

\* Every page below the page limit is returned with status 200 and is full.
AllPagesFull ==
    \A q \in 0..(pages - 1) : PageOk(q) /\ Len(PageOf(q).items) = PER_PAGE

\* C16: at every point of a call with page limit pages, the indices requested
\* so far are 0, 1, ..., j - 1 in this order, each once, with j <= pages; the
\* items collected are those of the requested pages that were returned with
\* status 200, in page order; and when every page below the limit is full and
\* returned with status 200, the call returns after exactly pages requests.
C16_PageSequence ==
    /\ fetch.requested = UpTo(Len(fetch.requested) - 1)
    /\ Len(fetch.requested) <= pages
    /\ fetch.all_vacancies = ItemsOfOkPages(0, Len(fetch.requested) - 1)
    /\ (fetch.state # "loop" /\ AllPagesFull) =>
          /\ fetch.state = "returned"
          /\ Len(fetch.requested) = pages

\* A call with the page limit 5 has returned after five full pages.
C16_Witness ==
    /\ fetch.state = "returned"
    /\ pages = PIPELINE_PAGES
    /\ AllPagesFull
    /\ Len(fetch.requested) = pages
    /\ Len(fetch.all_vacancies) = pages * PER_PAGE

\* ------------------------------------------------- the store a run must end with

\* The indices of the companies whose fetch returns vacancies, which are the
\* companies given persistence calls, in the order of the list.
Ingested == {i \in Indices : FetchNonEmpty(i)}

\* The value of the companies id sequence, which every insert_company call
\* advances, after the call for the company at index i.
Rank(i) == Cardinality({j \in Ingested : j <= i})

\* The first company of the list with the name of company i that is ingested.
FirstOfName(i) ==
    CHOOSE j \in Ingested :
       /\ companies[j].name = companies[i].name
       /\ \A j2 \in Ingested : companies[j2].name = companies[i].name => j <= j2

ExpectedCompanies ==
    { [id |-> Rank(i), name |-> companies[i].name, industry |-> companies[i].industry,
       area |-> companies[i].area] : i \in {j \in Ingested : FirstOfName(j) = j} }

\* The number of tuples inserted before those of company i: every tuple advances
\* the vacancies id sequence.
RECURSIVE TuplesBefore(_)
TuplesBefore(i) ==
    IF i <= 1 THEN 0
    ELSE TuplesBefore(i - 1)
         + (IF i - 1 \in Ingested THEN Len(FetchOf(i - 1).result) ELSE 0)

\* The url column of record j of company i.
UrlAt(i, j) ==
    LET rec == FetchOf(i).result[j]
    IN  IF rec.alternate_url = <<>> THEN URL_PLACEHOLDER ELSE rec.alternate_url[1]

\* Record j of company i is the first record with its url, in the order of the
\* list of companies and then of the records of a company.
FirstWithUrl(i, j) ==
    /\ \A i2 \in Ingested : i2 < i =>
          \A j2 \in 1..Len(FetchOf(i2).result) : UrlAt(i2, j2) # UrlAt(i, j)
    /\ \A j2 \in 1..(j - 1) : UrlAt(i, j2) # UrlAt(i, j)

\* The ingested companies with a record of url u.
Contributors(u) ==
    {i \in Ingested : \E j \in 1..Len(FetchOf(i).result) : UrlAt(i, j) = u}

ExpectedVacancies ==
    UNION { { VacancyRow(TuplesBefore(i) + j,
                         Normalize(FetchOf(i).result[j], Rank(FirstOfName(i)))) :
                 j \in {j1 \in 1..Len(FetchOf(i).result) : FirstWithUrl(i, j1)} } :
            i \in Ingested }

\* C17: when the database rejects nothing, the run ends, whatever the order in
\* which the worker threads start and finish, with the companies and vacancies
\* tables that the list of companies and the API responses alone determine; the
\* row of a url that several companies contribute carries the company_id of the
\* earliest of them in the list.
C17_Deterministic ==
    (pc = "returned" /\ faults = 0) =>
       /\ db.companies = ExpectedCompanies
       /\ db.vacancies = ExpectedVacancies
       /\ \A v \in db.vacancies :
             \E i \in Contributors(v.url) :
                /\ \A i2 \in Contributors(v.url) : i <= i2
                /\ v.company_id = Rank(FirstOfName(i))

\* The run is over, nothing was rejected, and two companies with different names
\* contributed the url of a stored row, which belongs to the first of them.
C17_Witness ==
    /\ pc = "returned"
    /\ faults = 0
    /\ \E i1, i2 \in Ingested :
          /\ i1 < i2
          /\ companies[i1].name # companies[i2].name
          /\ \E v \in db.vacancies :
                /\ {i1, i2} \subseteq Contributors(v.url)
                /\ v.company_id = Rank(i1)

\* The raw records of all fetches that returned, and the url column of a record:
\* its alternate_url, or the placeholder when it has none.
FetchedRecords ==
    UNION { {FetchOf(i).result[j] : j \in 1..Len(FetchOf(i).result)} : i \in Ingested }

NormalizedUrl(rec) ==
    IF rec.alternate_url = <<>> THEN URL_PLACEHOLDER ELSE rec.alternate_url[1]

\* C18: when the run is over and the database rejected nothing, the vacancies
\* table has one row per distinct normalized url of the fetched records, a
\* record without alternate_url counting under the placeholder url; so at most
\* one row carries the placeholder, exactly one when some fetched record has no
\* alternate_url, however many such records there are.
C18_RowCount ==
    (pc = "returned" /\ faults = 0) =>
       /\ Cardinality(db.vacancies)
             = Cardinality({NormalizedUrl(rec) : rec \in FetchedRecords})
       /\ {v.url : v \in db.vacancies} = {NormalizedUrl(rec) : rec \in FetchedRecords}
       /\ Cardinality({v \in db.vacancies : v.url = URL_PLACEHOLDER})
             = IF \E rec \in FetchedRecords : rec.alternate_url = <<>> THEN 1 ELSE 0

\* The run is over, nothing was rejected, two companies with different names
\* each fetched a record without alternate_url, and one row carries the
\* placeholder url.
C18_Witness ==
    /\ pc = "returned"
    /\ faults = 0
    /\ \E i1, i2 \in Ingested :
          /\ companies[i1].name # companies[i2].name
          /\ \E j \in 1..Len(FetchOf(i1).result) : FetchOf(i1).result[j].alternate_url = <<>>
          /\ \E j \in 1..Len(FetchOf(i2).result) : FetchOf(i2).result[j].alternate_url = <<>>
    /\ Cardinality({v \in db.vacancies : v.url = URL_PLACEHOLDER}) = 1
    /\ Cardinality(db.vacancies) >= 2

====
